---- MODULE Spec2Model ----
(***************************************************************************)
(* Model of the TIM codec of timview: read_tim (decode) and image_to_tim   *)
(* (encode) of timview-v2.py, over byte sequences.  A file is a sequence   *)
(* of bytes, an image a record of its size and its row-major RGB pixels.   *)
(* Palette indices are naturals and generated image blocks and images have *)
(* at least one pixel; an image given to image_to_tim is the palette image *)
(* left by the mode check of lines 147-149.  Exceptions are records of the *)
(* Python exception type and a message naming the statement that raised.   *)
(***************************************************************************)
EXTENDS Integers, Sequences, FiniteSets, TLC

(***************************************************************************)
(* Bounds of the explored inputs.                                          *)
(***************************************************************************)
MaxWords == 2          \* largest widthWords field of a generated image block
MaxHeight == 2         \* largest height field of a generated image block
MaxPaletteIndex == 3   \* largest palette_index passed to read_tim
MaxClutColours == 4    \* largest small CLUT payload, in colours
MaxClutWidth == 3      \* largest small declared CLUT width
MaxImgWidth == 5       \* largest width of an image given to image_to_tim
MaxImgHeight == 2      \* largest height of an image given to image_to_tim

Min(a, b) == IF a < b THEN a ELSE b

\* F applied to the value of v, which is computed once: an assignment to
\* a local followed by the code that uses it
Let(v, F(_)) == CHOOSE r \in { F(x) : x \in {v} } : TRUE

(***************************************************************************)
(* Bytes, file reads and struct.unpack.                                    *)
(***************************************************************************)

\* f.read(n) at offset pos: at most n bytes, fewer at end of file
Read(file, pos, n) == SubSeq(file, pos + 1, Min(pos + n, Len(file)))

\* f.read() at offset pos: the rest of the file
ReadAll(file, pos) == SubSeq(file, pos + 1, Len(file))

\* data[:n]
Slice(data, n) == SubSeq(data, 1, Min(n, Len(data)))

\* struct.unpack("<I", b)[0] of four bytes
UnpackU32(b) == b[1] + 256 * b[2] + 65536 * b[3] + 16777216 * b[4]

\* k-th field (from 1) of struct.unpack("<4H", b)
UnpackU16(b, k) == b[2 * k - 1] + 256 * b[2 * k]

\* np.frombuffer(data, dtype=np.uint16): little-endian 16-bit values
FromBufferU16(data) ==
    [k \in 1..(Len(data) \div 2) |-> data[2 * k - 1] + 256 * data[2 * k]]

(***************************************************************************)
(* Results.  pos is the file offset when the call returns or raises; loc   *)
(* holds the locals bpp, has_clut, clut and pixels at that point (0,       *)
(* FALSE and empty before they are assigned).                              *)
(***************************************************************************)
Locals(bpp, has_clut, clut, pixels) ==
    [bpp |-> bpp, has_clut |-> has_clut, clut |-> clut, pixels |-> pixels]

Fail(exc, msg, pos, loc) ==
    [ok |-> FALSE, exc |-> exc, msg |-> msg, size |-> <<0, 0>>, px |-> <<>>,
     pos |-> pos, loc |-> loc]

Done(w, h, px, pos, loc) ==
    [ok |-> TRUE, exc |-> "", msg |-> "", size |-> <<w, h>>, px |-> px,
     pos |-> pos, loc |-> loc]

\* what the caller gets: the image (size and pixels) or the exception
ImageOf(res) ==
    [ok |-> res.ok, exc |-> res.exc, msg |-> res.msg, size |-> res.size,
     px |-> res.px]

(***************************************************************************)
(* read_tim, stage by stage.                                               *)
(***************************************************************************)

\* has_clut = bool(flags & 0x08)
has_clut_of(flags) == (flags \div 8) % 2 = 1

\* mutant of bpp_mode_of: the mask is 0x0F
bpp_mode_of_mask15(flags) == flags % 16

\* bpp_mode = flags & 0x07
bpp_mode_of(flags) == flags % 8

\* mutant of bpp_of: a mode above 3 is taken as 4bpp
bpp_of_lenient(bpp_mode) ==
    CASE bpp_mode = 1 -> 8
      [] bpp_mode = 2 -> 16
      [] bpp_mode = 3 -> 24
      [] OTHER -> 4

\* {0: 4, 1: 8, 2: 16, 3: 24}.get(bpp_mode, None); None is 0 here
bpp_of(bpp_mode) ==
    CASE bpp_mode = 0 -> 4
      [] bpp_mode = 1 -> 8
      [] bpp_mode = 2 -> 16
      [] bpp_mode = 3 -> 24
      [] OTHER -> 0

\* mutant of expand: the 5-bit fields are shifted by two bits, not three
expand_shift2(c) ==
    << ((c % 32) * 4) % 256,
       (((c \div 32) % 32) * 4) % 256,
       (((c \div 1024) % 32) * 4) % 256 >>

\* mutant of expand: the top bits of a field are replicated into the low bits
expand_replicate(c) ==
    << (c % 32) * 8 + (c % 32) \div 4,
       ((c \div 32) % 32) * 8 + ((c \div 32) % 32) \div 4,
       ((c \div 1024) % 32) * 8 + ((c \div 1024) % 32) \div 4 >>

\* the channels of a packed 16-bit colour: (c & 0x1F) << 3 and so on,
\* then astype(np.uint8)
expand(c) ==
    << ((c % 32) * 8) % 256,
       (((c \div 32) % 32) * 8) % 256,
       (((c \div 1024) % 32) * 8) % 256 >>

\* mutant of ramp_entry: the index is not masked to 5 bits
ramp_entry_unmasked(i) == i + i * 32 + i * 1024

\* entry i (from 0) of the palette synthesized when there is no CLUT
ramp_entry(i) == (i % 32) + (i % 32) * 32 + (i % 32) * 1024

\* [ramp_entry(i) for i in range(n)]
ramp(n) == [k \in 1..n |-> ramp_entry(k - 1)]

\* mutant of reshape_clut: the fallback is reshape((-1, 1))
reshape_clut_column(clut_colors, clut_w) ==
    IF clut_w > 0 /\ Len(clut_colors) % clut_w = 0
    THEN [r \in 1..(Len(clut_colors) \div clut_w) |->
             SubSeq(clut_colors, (r - 1) * clut_w + 1, r * clut_w)]
    ELSE [r \in 1..Len(clut_colors) |-> << clut_colors[r] >>]

\* clut_colors.reshape((-1, clut_w)), and reshape((1, -1)) when that raises
reshape_clut(clut_colors, clut_w) ==
    IF clut_w > 0 /\ Len(clut_colors) % clut_w = 0
    THEN [r \in 1..(Len(clut_colors) \div clut_w) |->
             SubSeq(clut_colors, (r - 1) * clut_w + 1, r * clut_w)]
    ELSE << clut_colors >>

\* a failure while the CLUT block is read
ClutFail(exc, msg, pos) == [exc |-> exc, msg |-> msg, pos |-> pos, clut |-> <<>>]

\* clut_data of a block of size clut_block_size, read at offset pos
read_clut_data(file, pos, clut_block_size) ==
    IF clut_block_size - 12 = -1 THEN ReadAll(file, pos)
    ELSE Read(file, pos, clut_block_size - 12)

\* the CLUT block read at offset pos: the table, or the exception
read_clut(file, pos) ==
    Let(Read(file, pos, 4), LAMBDA b4 :
    Let(Read(file, pos + Len(b4), 8), LAMBDA b8 :
        IF Len(b4) < 4 THEN ClutFail("struct.error", "clut size", pos + Len(b4))
        ELSE IF Len(b8) < 8 THEN ClutFail("struct.error", "clut header", pos + 4 + Len(b8))
        ELSE IF UnpackU32(b4) - 12 < -1 THEN ClutFail("ValueError", "read length", pos + 12)
        ELSE
        Let(read_clut_data(file, pos + 12, UnpackU32(b4)), LAMBDA clut_data :
            IF Len(clut_data) % 2 # 0
            THEN ClutFail("ValueError", "clut buffer size", pos + 12 + Len(clut_data))
            ELSE
            Let(FromBufferU16(clut_data), LAMBDA clut_colors :
                [exc |-> "", msg |-> "", pos |-> pos + 12 + Len(clut_data),
                 clut |-> reshape_clut(clut_colors, UnpackU16(b8, 3))]))))

\* mutant of clamp_palette_index: clamps to the last row
clamp_palette_index_last(palette_index, clut) ==
    IF palette_index >= Len(clut) /\ Len(clut) > 0 THEN Len(clut) - 1 ELSE palette_index

\* if palette_index >= len(clut): palette_index = 0
clamp_palette_index(palette_index, clut) ==
    IF palette_index >= Len(clut) THEN 0 ELSE palette_index

\* mutant of width_of: the 4bpp and 8bpp factors are swapped
width_of_swapped(bpp, w_words) ==
    IF bpp = 4 THEN w_words * 2
    ELSE IF bpp = 8 THEN w_words * 4
    ELSE w_words

\* pixel width from the width field
width_of(bpp, w_words) ==
    IF bpp = 4 THEN w_words * 4
    ELSE IF bpp = 8 THEN w_words * 2
    ELSE w_words

\* mutant of nibble: the high nibble comes first
nibble_high_first(pixels, i) ==
    LET byte == pixels[(i \div 2) + 1]
    IN  IF i % 2 = 0 THEN (byte \div 16) % 16 ELSE byte % 16

\* index of pixel i (from 0) of a 4bpp payload
nibble(pixels, i) ==
    LET byte == pixels[(i \div 2) + 1]
    IN  IF i % 2 = 0 THEN byte % 16 ELSE (byte \div 16) % 16

\* the unpack loop of 4bpp
unpack4(pixels, num_pixels) == [k \in 1..num_pixels |-> nibble(pixels, k - 1)]

\* palette[pixels] followed by the channel conversion; needs every index in range
lookup(palette, indices) == [k \in 1..Len(indices) |-> expand(palette[indices[k] + 1])]

\* the selected palette: None, or a row of the CLUT
NoPalette == [none |-> TRUE, row |-> <<>>]

Palette(row) == [none |-> FALSE, row |-> row]

\* an exception raised while the pixels are decoded
PixelFail(exc, msg, pixels) == [exc |-> exc, msg |-> msg, pixels |-> pixels, px |-> <<>>]

\* the 4bpp branch; [exc, msg, pixels, px]
decode4(raw_data, w, h, selected_palette) ==
    Let(w * h, LAMBDA num_pixels :
    Let((num_pixels + 1) \div 2, LAMBDA bytes_needed :
    Let(Slice(raw_data, bytes_needed), LAMBDA pixels :
    Let(IF selected_palette.none THEN ramp(16) ELSE selected_palette.row, LAMBDA palette :
        IF Len(pixels) < bytes_needed
        THEN PixelFail("IndexError", "pixel byte", <<>>)
        ELSE
        Let(unpack4(pixels, num_pixels), LAMBDA pixels_unpack :
            IF \E k \in 1..num_pixels : pixels_unpack[k] >= Len(palette)
            THEN PixelFail("IndexError", "palette entry", pixels_unpack)
            ELSE [exc |-> "", msg |-> "", pixels |-> pixels_unpack,
                  px |-> lookup(palette, pixels_unpack)])))))

\* mutant of decode8: a short payload is padded with index 0
decode8_partial(raw_data, w, h, selected_palette) ==
    Let(Slice(raw_data, w * h), LAMBDA data :
    Let([k \in 1..(w * h) |-> IF k <= Len(data) THEN data[k] ELSE 0], LAMBDA pixels :
    Let(IF selected_palette.none THEN ramp(256) ELSE selected_palette.row, LAMBDA palette :
        IF \E k \in 1..Len(pixels) : pixels[k] >= Len(palette)
        THEN PixelFail("IndexError", "palette entry", pixels)
        ELSE [exc |-> "", msg |-> "", pixels |-> pixels, px |-> lookup(palette, pixels)])))

\* the 8bpp branch
decode8(raw_data, w, h, selected_palette) ==
    Let(Slice(raw_data, w * h), LAMBDA pixels :
    Let(IF selected_palette.none THEN ramp(256) ELSE selected_palette.row, LAMBDA palette :
        IF Len(pixels) # w * h
        THEN PixelFail("ValueError", "reshape", <<>>)
        ELSE IF \E k \in 1..Len(pixels) : pixels[k] >= Len(palette)
        THEN PixelFail("IndexError", "palette entry", pixels)
        ELSE [exc |-> "", msg |-> "", pixels |-> pixels, px |-> lookup(palette, pixels)]))

\* the 16bpp branch
decode16(raw_data, w, h) ==
    Let(Slice(raw_data, w * h * 2), LAMBDA data :
        IF Len(data) % 2 # 0
        THEN PixelFail("ValueError", "buffer size", <<>>)
        ELSE IF Len(data) \div 2 # w * h
        THEN PixelFail("ValueError", "reshape", <<>>)
        ELSE
        Let(FromBufferU16(data), LAMBDA img_array :
            [exc |-> "", msg |-> "", pixels |-> <<>>,
             px |-> [k \in 1..Len(img_array) |-> expand(img_array[k])]]))

\* mutant of decode24: the bytes of a pixel are taken as B, G, R
decode24_bgr(raw_data, w, h) ==
    Let(Slice(raw_data, w * h * 3), LAMBDA data :
        IF Len(data) < w * h * 3
        THEN PixelFail("ValueError", "not enough image data", <<>>)
        ELSE [exc |-> "", msg |-> "", pixels |-> <<>>,
              px |-> [k \in 1..(w * h) |->
                         << data[3 * k], data[3 * k - 1], data[3 * k - 2] >>]])

\* the 24bpp branch: Image.frombytes("RGB", (w, h), raw_data[:w * h * 3], "raw", "RGB")
decode24(raw_data, w, h) ==
    Let(Slice(raw_data, w * h * 3), LAMBDA data :
        IF Len(data) < w * h * 3
        THEN PixelFail("ValueError", "not enough image data", <<>>)
        ELSE [exc |-> "", msg |-> "", pixels |-> <<>>,
              px |-> [k \in 1..(w * h) |->
                         << data[3 * k - 2], data[3 * k - 1], data[3 * k] >>]])

\* mutant of magic_of: only the first byte is looked at
magic_of_low_byte(b) == b[1]

\* magic = struct.unpack("<I", f.read(4))[0]
magic_of(b) == UnpackU32(b)

\* a failure while magic and flags are read
HeaderFail(exc, msg, pos) ==
    [exc |-> exc, msg |-> msg, pos |-> pos, bpp |-> 0, has_clut |-> FALSE]

\* magic and flags; [exc, msg, pos, bpp, has_clut]
read_header(file) ==
    Let(Read(file, 0, 4), LAMBDA b0 :
    Let(Read(file, 4, 4), LAMBDA b1 :
        IF Len(b0) < 4 THEN HeaderFail("struct.error", "magic", Len(b0))
        ELSE IF magic_of(b0) # 16
        THEN HeaderFail("ValueError", "Not a TIM file (bad magic)", 4)
        ELSE IF Len(b1) < 4 THEN HeaderFail("struct.error", "flags", 4 + Len(b1))
        ELSE
        Let(UnpackU32(b1), LAMBDA flags :
        Let(bpp_of(bpp_mode_of(flags)), LAMBDA bpp :
            IF bpp = 0
            THEN [exc |-> "ValueError", msg |-> "Unsupported BPP mode", pos |-> 8,
                  bpp |-> 0, has_clut |-> has_clut_of(flags)]
            ELSE [exc |-> "", msg |-> "", pos |-> 8,
                  bpp |-> bpp, has_clut |-> has_clut_of(flags)]))))

\* the image block header read at offset pos; [exc, msg, pos, w_words, h]
read_image_header(file, pos) ==
    Let(Read(file, pos, 4), LAMBDA b4 :
    Let(Read(file, pos + Len(b4), 8), LAMBDA b8 :
        IF Len(b4) < 4
        THEN [exc |-> "struct.error", msg |-> "image size", pos |-> pos + Len(b4),
              w_words |-> 0, h |-> 0]
        ELSE IF Len(b8) < 8
        THEN [exc |-> "struct.error", msg |-> "image header", pos |-> pos + 4 + Len(b8),
              w_words |-> 0, h |-> 0]
        ELSE [exc |-> "", msg |-> "", pos |-> pos + 12,
              w_words |-> UnpackU16(b8, 3), h |-> UnpackU16(b8, 4)]))

\* the table and the row selected when has_clut; [exc, msg, pos, clut, selected_palette]
select_palette(file, pos, palette_index) ==
    Let(read_clut(file, pos), LAMBDA cl :
    Let(clamp_palette_index(palette_index, cl.clut), LAMBDA idx :
        IF cl.exc # ""
        THEN [exc |-> cl.exc, msg |-> cl.msg, pos |-> cl.pos, clut |-> <<>>,
              selected_palette |-> NoPalette]
        ELSE IF idx >= Len(cl.clut)
        THEN [exc |-> "IndexError", msg |-> "palette row", pos |-> cl.pos,
              clut |-> cl.clut, selected_palette |-> NoPalette]
        ELSE [exc |-> "", msg |-> "", pos |-> cl.pos, clut |-> cl.clut,
              selected_palette |-> Palette(cl.clut[idx + 1])]))

\* selected_palette = None when not has_clut
no_clut(pos) ==
    [exc |-> "", msg |-> "", pos |-> pos, clut |-> <<>>, selected_palette |-> NoPalette]

\* the branch on bpp
decode_pixels(bpp, raw_data, w, h, selected_palette) ==
    CASE bpp = 4 -> decode4(raw_data, w, h, selected_palette)
      [] bpp = 8 -> decode8(raw_data, w, h, selected_palette)
      [] bpp = 16 -> decode16(raw_data, w, h)
      [] OTHER -> decode24(raw_data, w, h)

\* read_tim(filepath, palette_index), file being the bytes at filepath
read_tim(file, palette_index) ==
    Let(read_header(file), LAMBDA hd :
        IF hd.exc # ""
        THEN Fail(hd.exc, hd.msg, hd.pos, Locals(hd.bpp, hd.has_clut, <<>>, <<>>))
        ELSE
        Let(IF hd.has_clut THEN select_palette(file, hd.pos, palette_index)
                           ELSE no_clut(hd.pos), LAMBDA sp :
            IF sp.exc # ""
            THEN Fail(sp.exc, sp.msg, sp.pos, Locals(hd.bpp, hd.has_clut, sp.clut, <<>>))
            ELSE
            Let(read_image_header(file, sp.pos), LAMBDA ih :
                IF ih.exc # ""
                THEN Fail(ih.exc, ih.msg, ih.pos, Locals(hd.bpp, hd.has_clut, sp.clut, <<>>))
                ELSE
                Let(width_of(hd.bpp, ih.w_words), LAMBDA w :
                Let(ReadAll(file, ih.pos), LAMBDA raw_data :
                Let(decode_pixels(hd.bpp, raw_data, w, ih.h, sp.selected_palette), LAMBDA d :
                    IF d.exc # ""
                    THEN Fail(d.exc, d.msg, Len(file),
                              Locals(hd.bpp, hd.has_clut, sp.clut, d.pixels))
                    ELSE Done(w, ih.h, d.px, Len(file),
                              Locals(hd.bpp, hd.has_clut, sp.clut, d.pixels))))))))

(***************************************************************************)
(* image_to_tim.  An image is the palette image the function works on      *)
(* after its mode check: [size, palette, pixels], palette being the flat   *)
(* list of getpalette() (or None) and pixels the row-major indices.        *)
(***************************************************************************)

\* struct.pack("<I", v)
PackU32(v) ==
    << v % 256, (v \div 256) % 256, (v \div 65536) % 256, (v \div 16777216) % 256 >>

\* struct.pack("<H", v)
PackU16(v) == << v % 256, (v \div 256) % 256 >>

\* np.array(values, dtype=np.uint16).tobytes()
ToBytesU16(values) ==
    [j \in 1..(2 * Len(values)) |->
        IF j % 2 = 1 THEN values[(j + 1) \div 2] % 256
                     ELSE (values[j \div 2] \div 256) % 256]

\* mutant of quantize: red and blue change places
quantize_swapped(r, g, b) ==
    (((r \div 8) * 1024) + ((g \div 8) * 32) + (b \div 8)) % 65536

\* color_16 & 0xFFFF of the palette colour (r, g, b)
quantize(r, g, b) ==
    (((b \div 8) * 1024) + ((g \div 8) * 32) + (r \div 8)) % 65536

\* mutant of clut_entry: the bound test is off by one colour
clut_entry_short(palette, i) ==
    LET idx == i * 3
    IN  IF idx + 3 >= Len(palette) THEN 0
        ELSE quantize(palette[idx + 1], palette[idx + 2], palette[idx + 3])

\* entry i (from 0) of clut_colors
clut_entry(palette, i) ==
    LET idx == i * 3
    IN  IF idx + 2 >= Len(palette) THEN 0
        ELSE quantize(palette[idx + 1], palette[idx + 2], palette[idx + 3])

\* the number of CLUT entries written
pal_len_of(bpp) == IF bpp = 4 THEN 16 ELSE 256

\* width field of the image block
w_words_of(bpp, width) ==
    IF bpp = 4 THEN (width + 3) \div 4 ELSE (width + 1) \div 2

\* np.clip(flat_pixels, 0, 15)
clip15(flat_pixels) ==
    [k \in 1..Len(flat_pixels) |-> IF flat_pixels[k] > 15 THEN 15 ELSE flat_pixels[k]]

\* mutant of pack4: the first index goes to the high nibble
pack4_high_first(flat_pixels) ==
    [k \in 1..((Len(flat_pixels) + 1) \div 2) |->
        LET first == flat_pixels[2 * k - 1]
            second == IF 2 * k <= Len(flat_pixels) THEN flat_pixels[2 * k] ELSE 0
        IN  first * 16 + second]

\* the 4bpp packing loop
pack4(flat_pixels) ==
    [k \in 1..((Len(flat_pixels) + 1) \div 2) |->
        LET first == flat_pixels[2 * k - 1]
            second == IF 2 * k <= Len(flat_pixels) THEN flat_pixels[2 * k] ELSE 0
        IN  second * 16 + first]

\* mutant of supported_bpp: 16 is let through
supported_bpp_16(bpp) == bpp \in {4, 8, 16}

\* bpp in (4, 8)
supported_bpp(bpp) == bpp \in {4, 8}

\* a raised exception; built is what had been packed into header by then
EncFail(exc, msg, built) ==
    [ok |-> FALSE, exc |-> exc, msg |-> msg, bytes |-> <<>>, built |-> built]

NoPaletteList == << -1 >>

\* magic, flags and the CLUT block
pack_clut_part(bpp, clut_data) ==
    PackU32(16) \o PackU32(8 + (IF bpp = 4 THEN 0 ELSE 1))
    \o PackU32(12 + Len(clut_data))
    \o PackU16(0) \o PackU16(0) \o PackU16(IF bpp = 4 THEN 16 ELSE 256) \o PackU16(1)
    \o clut_data

\* mutant of pack_image_part: the block size leaves the 12 header bytes out
pack_image_part_short(w_words, height, pixel_bytes) ==
    PackU32(Len(pixel_bytes))
    \o PackU16(0) \o PackU16(0) \o PackU16(w_words) \o PackU16(height)
    \o pixel_bytes

\* the image block
pack_image_part(w_words, height, pixel_bytes) ==
    PackU32(12 + Len(pixel_bytes))
    \o PackU16(0) \o PackU16(0) \o PackU16(w_words) \o PackU16(height)
    \o pixel_bytes

\* image_to_tim(image, bpp)
image_to_tim(image, bpp) ==
    IF ~supported_bpp(bpp)
    THEN EncFail("NotImplementedError", "Only 4bpp and 8bpp supported for writing TIM", <<>>)
    ELSE IF image.palette = NoPaletteList
    THEN EncFail("ValueError", "Image has no palette", <<>>)
    ELSE
    Let(image.palette, LAMBDA palette :
    Let([k \in 1..pal_len_of(bpp) |-> clut_entry(palette, k - 1)], LAMBDA clut_colors :
    Let(ToBytesU16(clut_colors), LAMBDA clut_data :
    Let(IF bpp = 4 THEN pack4(clip15(image.pixels)) ELSE image.pixels, LAMBDA pixel_bytes :
    Let(pack_clut_part(bpp, clut_data)
        \o pack_image_part(w_words_of(bpp, image.size[1]), image.size[2], pixel_bytes),
        LAMBDA header :
        [ok |-> TRUE, exc |-> "", msg |-> "", bytes |-> header, built |-> header])))))

(***************************************************************************)
(* The inputs explored: TIM files put together from a magic, a flags word, *)
(* a CLUT block (well-formed or not) and an image block, cut-off files,    *)
(* and palette images.                                                     *)
(***************************************************************************)

\* colour k (from 1) of the generated CLUTs: black, white, then mixed ones
ColourAt(k) ==
    IF k = 1 THEN 0
    ELSE IF k = 2 THEN 32767
    ELSE (k * 4133 + 16912) % 65536

ClutBlock(block_size, clut_w, clut_h, n) ==
    PackU32(block_size) \o PackU16(0) \o PackU16(0) \o PackU16(clut_w) \o PackU16(clut_h)
    \o ToBytesU16([k \in 1..n |-> ColourAt(k)])

ClutBlocks ==
    { ClutBlock(12 + 2 * n, cw, IF cw > 0 /\ n % cw = 0 THEN n \div cw ELSE 1, n) :
          n \in 0..MaxClutColours, cw \in 0..MaxClutWidth }
    \cup { ClutBlock(12 + 2 * n, 16, n \div 16, n) : n \in {16, 32} }
    \cup { ClutBlock(bs, 2, 1, 2) : bs \in {10, 11, 12, 13, 18} }
    \cup { <<>> }

\* byte k (from 1) of payload pattern pat
PayloadByte(pat, k) ==
    CASE pat = 1 -> << 1, 0, 0, 1 >>[((k - 1) % 4) + 1]
      [] pat = 2 -> << 33, 67, 245, 10 >>[((k - 1) % 4) + 1]
      [] OTHER -> (10 * k) % 256

ImageBlock(w_words, h, pat, len) ==
    PackU32(12 + len) \o PackU16(0) \o PackU16(0) \o PackU16(w_words) \o PackU16(h)
    \o [k \in 1..len |-> PayloadByte(pat, k)]

ImageBlocks ==
    UNION { { ImageBlock(ww, h, pat, len) :
                len \in {2 * ww * h - 1, 2 * ww * h, 3 * ww * h} } :
            ww \in 1..MaxWords, h \in 1..MaxHeight, pat \in 1..3 }

FlagsValues ==
    { m + c : m \in {0, 1, 2, 3, 4, 7}, c \in {0, 8} } \cup {16, 25, 266, 287, 65544}

BadMagics == { <<17, 0, 0, 0>>, <<16, 1, 0, 0>>, <<16, 0, 0, 1>>, <<0, 0, 0, 16>> }

TimBody(flags, clut_block, image_block) == PackU32(flags) \o clut_block \o image_block

\* CLUTs all modes are tried with: none, 2 rows of 2, 1 and 2 rows of 16
CommonClutBlocks ==
    { <<>>, ClutBlock(20, 2, 2, 4), ClutBlock(44, 16, 1, 16), ClutBlock(76, 16, 2, 32) }

\* every flags word, on a few CLUTs and one image block
FlagsFiles ==
    { PackU32(16) \o TimBody(fl, cb, ImageBlock(1, 1, 1, 2)) :
          fl \in FlagsValues, cb \in CommonClutBlocks }

\* every CLUT block, in the four modes, on the image blocks of one height
ClutFiles ==
    { PackU32(16) \o TimBody(fl, cb, ImageBlock(1, 1, 1, len)) :
          fl \in 8..11, cb \in ClutBlocks, len \in {1, 2, 3} }

\* every image block, in the four modes with and without CLUT
ImageFiles ==
    { PackU32(16) \o TimBody(fl, cb, ib) :
          fl \in (0..3) \cup (8..11), cb \in CommonClutBlocks, ib \in ImageBlocks }

TimFiles == FlagsFiles \cup ClutFiles \cup ImageFiles

BadMagicFiles ==
    { m \o TimBody(fl, cb, ImageBlock(1, 1, 1, 2)) :
          m \in BadMagics, fl \in FlagsValues, cb \in CommonClutBlocks }

\* a 4bpp file with a CLUT, cut off after every length
CutFiles ==
    LET whole == PackU32(16) \o TimBody(8, ClutBlock(16, 2, 1, 2), ImageBlock(1, 1, 1, 2))
    IN  { SubSeq(whole, 1, n) : n \in 0..(Len(whole) - 1) }

Files == TimFiles \cup BadMagicFiles \cup CutFiles

PaletteIndices == 0..MaxPaletteIndex

\* colour i (from 0) of the generated palettes
PalColour(i) == << (i * 8 + 3) % 256, (i * 16 + 5) % 256, 255 - (i % 256) >>

\* getpalette() of a palette of n colours
PaletteList(n) == [j \in 1..(3 * n) |-> PalColour((j - 1) \div 3)[((j - 1) % 3) + 1]]

\* index of pixel k (from 1) of index pattern pat
PixelIndex(pat, k) ==
    CASE pat = 1 -> k % 16
      [] pat = 2 -> 5
      [] OTHER -> (k * 37) % 256

Images ==
    { [size |-> <<w, h>>, palette |-> pal,
       pixels |-> [k \in 1..(w * h) |-> PixelIndex(pat, k)]] :
          w \in 1..MaxImgWidth, h \in 1..MaxImgHeight, pat \in 1..3,
          pal \in { PaletteList(n) : n \in {0, 1, 16, 17, 256} } \cup {NoPaletteList} }

BppRequests == {4, 8, 16, 24, 0}

(***************************************************************************)
(* The caller: it decodes a file, or encodes an image and reads the bytes  *)
(* back, then takes the result.                                            *)
(***************************************************************************)
VARIABLES pc, file, palette_index, decoded, image, bpp_arg, encoded

\* the viewer: the per-file lists and the current index of TIMViewerApp, the
\* selection of its file list box, what display_image last showed, and the
\* batch conversion under way with its output folder
VARIABLES tim_files, file_types, palettes, palette_indices, bpp_modes, index,
          selection, shown, batch, folder

codec == << pc, file, palette_index, decoded, image, bpp_arg, encoded >>

viewer == << tim_files, file_types, palettes, palette_indices, bpp_modes, index,
             selection, shown, batch, folder >>

vars == << codec, viewer >>

NoImage == [size |-> <<0, 0>>, palette |-> <<>>, pixels |-> <<>>]

NoResult == Fail("", "", 0, Locals(0, FALSE, <<>>, <<>>))

NoBytes == EncFail("", "", <<>>)

\* curselection() of an empty selection
NoSelection == -1

\* preview and status labels before any display_image
NothingShown == [status |-> "", path |-> "", palette_index |-> 0, image |-> ImageOf(NoResult)]

\* no batch conversion under way; log has one entry for each file visited
NoBatch == [running |-> FALSE, reported |-> -1, i |-> 0, count |-> 0, log |-> <<>>,
            to_png |-> FALSE, to_bmp |-> FALSE, to_tim |-> FALSE]

\* TIMViewerApp.__init__
InitViewer ==
    /\ tim_files = <<>>
    /\ file_types = <<>>
    /\ palettes = <<>>
    /\ palette_indices = <<>>
    /\ bpp_modes = <<>>
    /\ index = 0
    /\ selection = NoSelection
    /\ shown = NothingShown
    /\ batch = NoBatch
    /\ folder = {}

Init ==
    /\ pc = "idle"
    /\ file = <<>>
    /\ palette_index = 0
    /\ decoded = NoResult
    /\ image = NoImage
    /\ bpp_arg = 0
    /\ encoded = NoBytes
    /\ InitViewer

\* read_tim(path, palette_index) on a file
Decode ==
    /\ pc = "idle"
    /\ \E f \in Files, p \in PaletteIndices :
          /\ file' = f
          /\ palette_index' = p
          /\ decoded' = read_tim(f, p)
    /\ pc' = "decoded"
    /\ UNCHANGED << image, bpp_arg, encoded >>
    /\ UNCHANGED viewer

\* image_to_tim(img, bpp)
Encode ==
    /\ pc = "idle"
    /\ \E img \in Images, b \in BppRequests :
          /\ image' = img
          /\ bpp_arg' = b
          /\ encoded' = image_to_tim(img, b)
    /\ pc' = "encoded"
    /\ UNCHANGED << file, palette_index, decoded >>
    /\ UNCHANGED viewer

\* the bytes image_to_tim returned are written out and read with read_tim
ReadBack ==
    /\ pc = "encoded"
    /\ encoded.ok
    /\ file' = encoded.bytes
    /\ palette_index' = 0
    /\ decoded' = read_tim(encoded.bytes, 0)
    /\ pc' = "readback"
    /\ UNCHANGED << image, bpp_arg, encoded >>
    /\ UNCHANGED viewer

\* the caller is done with the result
Return ==
    /\ pc # "idle"
    /\ pc' = "idle"
    /\ file' = <<>>
    /\ palette_index' = 0
    /\ decoded' = NoResult
    /\ image' = NoImage
    /\ bpp_arg' = 0
    /\ encoded' = NoBytes
    /\ UNCHANGED viewer

Next == Decode \/ Encode \/ ReadBack \/ Return

Spec == Init /\ [][Next]_vars

(***************************************************************************)
(* Properties.  They read the input the caller passed (file,               *)
(* palette_index, image, bpp_arg) and the result it got.                   *)
(***************************************************************************)
AfterDecode == pc \in {"decoded", "readback"}

\* little-endian fields of the file at byte offset off
FileU16(f, off) == f[off + 1] + 256 * f[off + 2]

FileU32(f, off) ==
    f[off + 1] + 256 * f[off + 2] + 65536 * f[off + 3] + 16777216 * f[off + 4]

RaisedImage(exc, msg) ==
    [ok |-> FALSE, exc |-> exc, msg |-> msg, size |-> <<0, 0>>, px |-> <<>>]

\* C1: decoding a file whose first four bytes are not the little-endian
\* u32 0x10 raises the bad-magic error and gives no image, whatever the
\* rest of the file and the palette index are.
C1_BadMagicFails ==
    (AfterDecode /\ Len(file) >= 4 /\ FileU32(file, 0) # 16)
        => ImageOf(decoded) = RaisedImage("ValueError", "Not a TIM file (bad magic)")

\* a decode of a complete file whose magic differs from 0x10 only above
\* the first byte, with a non-zero palette index
C1_Witness ==
    /\ pc = "decoded"
    /\ Len(file) > 20
    /\ file[1] = 16
    /\ FileU32(file, 0) # 16
    /\ palette_index > 0
    /\ ~decoded.ok

\* the file with its flags word replaced
WithFlags(f, flags) == SubSeq(f, 1, 4) \o PackU32(flags) \o SubSeq(f, 9, Len(f))

\* C2: with magic 0x10, a mode field (flags bits 0-2) outside 0..3 raises
\* the unsupported-mode error with nothing read after the flags; modes
\* 0,1,2,3 give bpp 4,8,16,24, has_clut is flags bit 3, and the bits above
\* bit 3 do not change the result.
C2_FlagsParsing ==
    (AfterDecode /\ Len(file) >= 8 /\ FileU32(file, 0) = 16)
        => LET flags == FileU32(file, 4)
               mode == flags % 8
           IN  /\ mode \notin 0..3 =>
                    /\ ImageOf(decoded) = RaisedImage("ValueError", "Unsupported BPP mode")
                    /\ decoded.pos = 8
               /\ mode \in 0..3 =>
                    /\ decoded.loc.bpp = << 4, 8, 16, 24 >>[mode + 1]
                    /\ decoded.loc.has_clut = ((flags \div 8) % 2 = 1)
               /\ ImageOf(decoded)
                    = ImageOf(read_tim(WithFlags(file, flags % 16), palette_index))

\* a decode of a file with blocks after the flags whose flags have mode 7,
\* bit 3 and higher bits set
C2_Witness ==
    /\ pc = "decoded"
    /\ Len(file) > 20
    /\ FileU32(file, 0) = 16
    /\ FileU32(file, 4) = 287
    /\ decoded.exc = "ValueError"
    /\ decoded.pos = 8

\* the file has a flags word with bit 3 set and a CLUT block that is all there
HasWholeClut(f) ==
    /\ Len(f) >= 20
    /\ FileU32(f, 0) = 16
    /\ FileU32(f, 4) % 8 \in 0..3
    /\ (FileU32(f, 4) \div 8) % 2 = 1
    /\ FileU32(f, 8) >= 12
    /\ FileU32(f, 8) % 2 = 0
    /\ Len(f) >= 8 + FileU32(f, 8)

\* the number of colours of the CLUT payload, its declared width, colour k (from 1)
ClutColours(f) == (FileU32(f, 8) - 12) \div 2

ClutWidth(f) == FileU16(f, 16)

ClutColour(f, k) == FileU16(f, 20 + 2 * (k - 1))

ClutDivides(f) == ClutWidth(f) > 0 /\ ClutColours(f) % ClutWidth(f) = 0

\* the number of rows of the table
ClutRows(f) == IF ClutDivides(f) THEN ClutColours(f) \div ClutWidth(f) ELSE 1

\* C3: with a CLUT, a palette index at or above the row count gives exactly
\* the result of palette index 0 on the same file.
C3_ClampToRowZero ==
    (AfterDecode /\ HasWholeClut(file) /\ palette_index >= ClutRows(file))
        => ImageOf(decoded) = ImageOf(read_tim(file, 0))

\* a successful decode with an index past the last of two rows, where the
\* last row gives another image than row 0
C3_Witness ==
    /\ pc = "decoded"
    /\ HasWholeClut(file)
    /\ ClutRows(file) = 2
    /\ palette_index >= 2
    /\ decoded.ok
    /\ read_tim(file, 1).ok
    /\ read_tim(file, 1).px # decoded.px

ClutStageMessages ==
    {"clut size", "clut header", "read length", "clut buffer size", "palette row"}

\* C4: when the number of colours of the CLUT payload is not a multiple of
\* the declared width, decode does not fail in the CLUT and the table is one
\* row of all the colours in file order; when it is a multiple, the table
\* has colours/width rows of width colours in file order.
C4_ClutReshape ==
    (AfterDecode /\ HasWholeClut(file))
        => LET n == ClutColours(file)
               cw == ClutWidth(file)
               clut == decoded.loc.clut
           IN  IF ClutDivides(file)
               THEN /\ Len(clut) = n \div cw
                    /\ \A r \in 1..(n \div cw) :
                          clut[r] = [c \in 1..cw |-> ClutColour(file, (r - 1) * cw + c)]
               ELSE /\ decoded.msg \notin ClutStageMessages
                    /\ clut = << [k \in 1..n |-> ClutColour(file, k)] >>

\* a successful decode of a file whose CLUT has 3 colours declared 2 wide
C4_Witness ==
    /\ pc = "decoded"
    /\ HasWholeClut(file)
    /\ ClutColours(file) = 3
    /\ ClutWidth(file) = 2
    /\ decoded.ok
    /\ Len(decoded.loc.clut) = 1

\* byte offset of the image block: after the flags, or after the CLUT block
ImageOffset(f) ==
    IF (FileU32(f, 4) \div 8) % 2 = 1 THEN 8 + FileU32(f, 8) ELSE 8

\* payload byte k (from 0) of the image block
PayloadAt(f, k) == f[ImageOffset(f) + 12 + k + 1]

\* the 4bpp index of pixel i (from 0), from the bytes of the file
FileNibble(f, i) ==
    IF i % 2 = 0 THEN PayloadAt(f, i \div 2) % 16 ELSE PayloadAt(f, i \div 2) \div 16

\* the CLUT row the caller's palette_index stands for, as colours of the file
ChosenRow(f, pidx) ==
    LET r == IF pidx >= ClutRows(f) THEN 0 ELSE pidx
        len == IF ClutDivides(f) THEN ClutWidth(f) ELSE ClutColours(f)
    IN  [c \in 1..len |-> ClutColour(f, r * len + c)]

\* the rule of 4bpp decode with a CLUT: index from the nibbles, colour from the row
C5_NibbleRule ==
    (AfterDecode /\ decoded.ok /\ decoded.loc.bpp = 4 /\ decoded.loc.has_clut)
        => \A i \in 0..(decoded.size[1] * decoded.size[2] - 1) :
              /\ decoded.loc.pixels[i + 1] = FileNibble(file, i)
              /\ decoded.px[i + 1] = expand(ChosenRow(file, palette_index)[FileNibble(file, i) + 1])

\* the example: 4 pixels, payload 0x01 0x00, row[0] = 0x0000, row[1] = 0x7FFF
C5_Example ==
    /\ AfterDecode /\ decoded.ok /\ decoded.loc.bpp = 4 /\ decoded.loc.has_clut
    /\ decoded.size[1] * decoded.size[2] = 4
    /\ PayloadAt(file, 0) = 1
    /\ PayloadAt(file, 1) = 0
    /\ ChosenRow(file, palette_index)[1] = 0
    /\ ChosenRow(file, palette_index)[2] = 32767

\* C5 as stated: the nibble rule, and the example decodes to indices
\* [0,1,0,0].
C5_AsStated ==
    /\ C5_NibbleRule
    /\ C5_Example => decoded.loc.pixels = << 0, 1, 0, 0 >>

\* C5 (amended): in 4bpp decode pixel i takes the low nibble of payload byte
\* i div 2 when i is even and the high nibble when i is odd, and its colour
\* is expand(selectedRow[index]); payload [0x01,0x00] with row[0] = 0x0000
\* and row[1] = 0x7FFF gives indices [1,0,0,0] and colours white, black,
\* black, black.
C5_NibbleDecode ==
    /\ C5_NibbleRule
    /\ C5_Example =>
          /\ decoded.loc.pixels = << 1, 0, 0, 0 >>
          /\ decoded.px = << <<248, 248, 248>>, <<0, 0, 0>>, <<0, 0, 0>>, <<0, 0, 0>> >>

\* the decode of the example
C5_Witness == pc = "decoded" /\ C5_Example

\* the file has a 4bpp or 8bpp header without a CLUT and all the pixel bytes
\* of its image block
NoClutIndexed(f) ==
    /\ Len(f) >= 20
    /\ FileU32(f, 0) = 16
    /\ FileU32(f, 4) % 8 \in {0, 1}
    /\ (FileU32(f, 4) \div 8) % 2 = 0
    /\ Len(f) - 20 >= 2 * FileU16(f, 16) * FileU16(f, 18)

\* C6: without a CLUT, 4bpp and 8bpp decode succeed and every pixel of
\* index i is the grey 8 * (i & 0x1F) on all three channels.
C6_GreyRamp ==
    (AfterDecode /\ NoClutIndexed(file))
        => /\ decoded.ok
           /\ Len(decoded.px) = decoded.size[1] * decoded.size[2]
           /\ \A i \in 0..(decoded.size[1] * decoded.size[2] - 1) :
                 LET idx == IF FileU32(file, 4) % 8 = 0 THEN FileNibble(file, i)
                            ELSE PayloadAt(file, i)
                     grey == 8 * (idx % 32)
                 IN  decoded.px[i + 1] = << grey, grey, grey >>

\* an 8bpp decode without a CLUT of a pixel whose index is above 31
C6_Witness ==
    /\ pc = "decoded"
    /\ NoClutIndexed(file)
    /\ FileU32(file, 4) % 8 = 1
    /\ PayloadAt(file, 0) = 33
    /\ decoded.ok
    /\ decoded.px[1] = << 8, 8, 8 >>

\* C7: a decoded image is widthWords*4 (4bpp), widthWords*2 (8bpp) or
\* widthWords (16bpp, 24bpp) pixels wide and height pixels high, widthWords
\* and height being the u16 fields of the image block header.
C7_DecodedSize ==
    (AfterDecode /\ decoded.ok)
        => LET mode == FileU32(file, 4) % 8
               w_words == FileU16(file, ImageOffset(file) + 8)
               height == FileU16(file, ImageOffset(file) + 10)
           IN  decoded.size =
                  << (CASE mode = 0 -> w_words * 4
                        [] mode = 1 -> w_words * 2
                        [] OTHER -> w_words),
                     height >>

\* a 4bpp decode of an image block two words wide behind a CLUT
C7_Witness ==
    /\ pc = "decoded"
    /\ decoded.ok
    /\ decoded.loc.bpp = 4
    /\ decoded.loc.has_clut
    /\ decoded.size = << 8, 2 >>

\* C8: image_to_tim with a bpp other than 4 and 8 raises the unsupported
\* error, returns no bytes and has built no byte of the output by then.
C8_EncodeRejectsBpp ==
    (pc = "encoded" /\ bpp_arg \notin {4, 8})
        => /\ ~encoded.ok
           /\ encoded.exc = "NotImplementedError"
           /\ encoded.bytes = <<>>
           /\ encoded.built = <<>>

\* an encode of an image with a palette asked for 16 bpp
C8_Witness ==
    /\ pc = "encoded"
    /\ bpp_arg = 16
    /\ Len(image.palette) = 48
    /\ ~encoded.ok

\* C9: a 4bpp encode of an image with a pixel index outside 0..15 is
\* rejected and returns no bytes.
C9_RejectsOutOfRange ==
    (pc = "encoded" /\ bpp_arg = 4 /\ image.palette # NoPaletteList
        /\ \E k \in 1..Len(image.pixels) : image.pixels[k] > 15)
        => ~encoded.ok /\ encoded.bytes = <<>>

\* C10: the encoder writes widthWords = ceil(width/4) (4bpp) or
\* ceil(width/2) (8bpp), and decoding what it returned succeeds with the
\* width of the encoded image.
C10_WidthRoundTrip ==
    (pc = "readback")
        => /\ FileU16(file, ImageOffset(file) + 8) =
                 (IF bpp_arg = 4 THEN (image.size[1] + 3) \div 4
                                 ELSE (image.size[1] + 1) \div 2)
           /\ decoded.ok
           /\ decoded.size[1] = image.size[1]

\* a | b of two naturals
RECURSIVE BitOr(_, _)
BitOr(a, b) ==
    IF a = 0 THEN b
    ELSE IF b = 0 THEN a
    ELSE (IF a % 2 = 1 \/ b % 2 = 1 THEN 1 ELSE 0) + 2 * BitOr(a \div 2, b \div 2)

\* index k (from 0) of the image given to image_to_tim, 0 past the end
IndexAt(k) == IF k < Len(image.pixels) THEN image.pixels[k + 1] ELSE 0

\* the pixel payload of the bytes image_to_tim returned
EncodedPayload == SubSeq(encoded.bytes, ImageOffset(encoded.bytes) + 13, Len(encoded.bytes))

\* C11: 4bpp encode writes ceil(pixelCount/2) payload bytes, byte k being
\* (index[2k+1] << 4) | index[2k] with 0 for a missing last index; indices
\* [1,2,3,4] of a 4x1 image give widthWords 1 and bytes [0x21,0x43].
C11_PacksNibbles ==
    (pc = "encoded" /\ bpp_arg = 4 /\ encoded.ok)
        => /\ Len(EncodedPayload) = (Len(image.pixels) + 1) \div 2
           /\ \A k \in 0..(Len(EncodedPayload) - 1) :
                 EncodedPayload[k + 1] = BitOr(IndexAt(2 * k + 1) * 16, IndexAt(2 * k))
           /\ (image.size = << 4, 1 >> /\ image.pixels = << 1, 2, 3, 4 >>)
                 => /\ FileU16(encoded.bytes, ImageOffset(encoded.bytes) + 8) = 1
                    /\ EncodedPayload = << 33, 67 >>

\* the packing of C11 on the images whose indices are all in 0..15
C11_InRangePacking ==
    (pc = "encoded" /\ bpp_arg = 4 /\ encoded.ok
        /\ \A k \in 1..Len(image.pixels) : image.pixels[k] <= 15)
        => /\ Len(EncodedPayload) = (Len(image.pixels) + 1) \div 2
           /\ \A k \in 0..(Len(EncodedPayload) - 1) :
                 EncodedPayload[k + 1] = IndexAt(2 * k + 1) * 16 + IndexAt(2 * k)

\* the number of colours of the palette given to image_to_tim
PaletteColours == Len(image.palette) \div 3

\* colour i (from 0) of that palette, quantized as the claim writes it:
\* r>>3 | (g>>3)<<5 | (b>>3)<<10
QuantizedPaletteColour(i) ==
    (image.palette[3 * i + 1] \div 8)
    + 32 * (image.palette[3 * i + 2] \div 8)
    + 1024 * (image.palette[3 * i + 3] \div 8)

\* C12: the CLUT written has 16 (4bpp) or 256 (8bpp) entries, entry i being
\* quantize(palette[i]) when the palette has colour i and 0 otherwise, every
\* entry with bit 15 clear, block size 12 + 2*entries, width = entries and
\* height 1.
C12_ClutWritten ==
    (pc = "encoded" /\ encoded.ok)
        => LET entries == IF bpp_arg = 4 THEN 16 ELSE 256
           IN  /\ FileU32(encoded.bytes, 8) = 12 + 2 * entries
               /\ FileU32(encoded.bytes, 8) \in {44, 524}
               /\ FileU16(encoded.bytes, 16) = entries
               /\ FileU16(encoded.bytes, 18) = 1
               /\ ImageOffset(encoded.bytes) = 20 + 2 * entries
               /\ \A i \in 0..(entries - 1) :
                     /\ ClutColour(encoded.bytes, i + 1) < 32768
                     /\ ClutColour(encoded.bytes, i + 1) =
                           (IF i < PaletteColours THEN QuantizedPaletteColour(i) ELSE 0)

\* a 4bpp encode of an image with a palette of one colour
C12_Witness ==
    /\ pc = "encoded"
    /\ encoded.ok
    /\ bpp_arg = 4
    /\ PaletteColours = 1
    /\ ClutColour(encoded.bytes, 1) # 0
    /\ ClutColour(encoded.bytes, 2) = 0

\* C13: the bytes returned are magic 0x10, flags (0 for 4bpp, 1 for 8bpp)
\* | 0x08, the CLUT block, and the image block whose size field is 12 + the
\* payload length up to the end of the buffer; reading them back, the header
\* is parsed with the same bpp and has_clut set.
C13_Layout ==
    /\ (pc = "encoded" /\ encoded.ok)
          => /\ FileU32(encoded.bytes, 0) = 16
             /\ FileU32(encoded.bytes, 4) = BitOr(IF bpp_arg = 4 THEN 0 ELSE 1, 8)
             /\ FileU32(encoded.bytes, ImageOffset(encoded.bytes))
                   = 12 + Len(EncodedPayload)
             /\ Len(EncodedPayload) =
                   (IF bpp_arg = 4 THEN (Len(image.pixels) + 1) \div 2
                                   ELSE Len(image.pixels))
    /\ pc = "readback"
          => /\ file = encoded.bytes
             /\ decoded.msg \notin {"magic", "Not a TIM file (bad magic)", "flags",
                                    "Unsupported BPP mode"}
             /\ decoded.loc.bpp = bpp_arg
             /\ decoded.loc.has_clut

\* an 8bpp encode read back
C13_Witness ==
    /\ pc = "readback"
    /\ bpp_arg = 8
    /\ decoded.loc.bpp = 8
    /\ Len(file) > 532

\* the image is one the round trip is claimed for: width a multiple of 4
\* (4bpp) or 2 (8bpp), every index a colour of the palette and of the CLUT
Aligned ==
    /\ image.size[1] % (IF bpp_arg = 4 THEN 4 ELSE 2) = 0
    /\ \A k \in 1..Len(image.pixels) :
          /\ image.pixels[k] < PaletteColours
          /\ image.pixels[k] < (IF bpp_arg = 4 THEN 16 ELSE 256)

\* C14: for an aligned image with indices in the palette range, reading the
\* encoded bytes back with palette index 0 succeeds with the same size, the
\* same index at every pixel and the colour expand(quantize(palette[index])),
\* each channel at most 7 below the palette colour.
C14_AlignedRoundTrip ==
    (pc = "readback" /\ Aligned)
        => /\ decoded.ok
           /\ decoded.size = image.size
           /\ decoded.loc.pixels = image.pixels
           /\ \A k \in 1..Len(image.pixels) :
                 /\ decoded.px[k] = expand(QuantizedPaletteColour(image.pixels[k]))
                 /\ \A ch \in 1..3 :
                       LET orig == image.palette[3 * image.pixels[k] + ch]
                       IN  decoded.px[k][ch] <= orig /\ orig - decoded.px[k][ch] <= 7

\* a 4bpp round trip of a 4x2 image with differing indices
C14_Witness ==
    /\ pc = "readback"
    /\ bpp_arg = 4
    /\ Aligned
    /\ image.size = << 4, 2 >>
    /\ image.pixels[1] # image.pixels[2]
    /\ decoded.ok

\* C18: a 24bpp decode copies the payload: pixel p (from 0) is payload bytes
\* 3p, 3p+1, 3p+2 as R, G, B, unconverted and with no palette lookup, also
\* when the file has a CLUT block.
C18_Identity24 ==
    (AfterDecode /\ decoded.ok /\ decoded.loc.bpp = 24)
        => /\ decoded.size = << FileU16(file, ImageOffset(file) + 8),
                                FileU16(file, ImageOffset(file) + 10) >>
           /\ Len(decoded.px) = decoded.size[1] * decoded.size[2]
           /\ \A p \in 0..(Len(decoded.px) - 1) :
                 decoded.px[p + 1] = << PayloadAt(file, 3 * p),
                                        PayloadAt(file, 3 * p + 1),
                                        PayloadAt(file, 3 * p + 2) >>

\* a 24bpp file with a CLUT block whose first pixel is not a multiple of 8
\* in any channel
C18_Witness ==
    /\ pc = "decoded"
    /\ decoded.ok
    /\ decoded.loc.bpp = 24
    /\ decoded.loc.has_clut
    /\ Len(decoded.px) > 1
    /\ decoded.px[1] = << 33, 67, 245 >>

\* the pixel bytes a decode of w x h pixels at the mode's depth needs
BytesRequired(bpp_mode, w_words, h) ==
    IF bpp_mode = 0 THEN (w_words * 4 * h + 1) \div 2
    ELSE IF bpp_mode = 1 THEN w_words * 2 * h
    ELSE IF bpp_mode = 2 THEN 2 * w_words * h
    ELSE 3 * w_words * h

\* the file ends before the bytes its headers call for
Truncated(f) ==
    IF Len(f) < 8 THEN TRUE
    ELSE IF (FileU32(f, 4) \div 8) % 2 = 1 /\ Len(f) < 20 THEN TRUE
    ELSE IF (FileU32(f, 4) \div 8) % 2 = 1 /\ FileU32(f, 8) < 12 THEN FALSE
    ELSE IF Len(f) < ImageOffset(f) + 12 THEN TRUE
    ELSE /\ FileU32(f, 4) % 8 \in 0..3
         /\ Len(f) - (ImageOffset(f) + 12)
               < BytesRequired(FileU32(f, 4) % 8,
                               FileU16(f, ImageOffset(f) + 8),
                               FileU16(f, ImageOffset(f) + 10))

\* C19: a decode of a file that ends before the bytes its headers call for
\* (a header cut short, or fewer pixel bytes than width, height and depth
\* require) raises an exception and gives no image.
C19_TruncatedFails ==
    (AfterDecode /\ Truncated(file))
        => /\ ~decoded.ok
           /\ decoded.exc # ""
           /\ decoded.px = <<>>
           /\ decoded.size = << 0, 0 >>

\* an 8bpp file with a whole image header and some, not all, of its pixels
C19_Witness ==
    /\ pc = "decoded"
    /\ Len(file) >= 8
    /\ FileU32(file, 0) = 16
    /\ FileU32(file, 4) % 8 = 1
    /\ Truncated(file)
    /\ Len(file) > ImageOffset(file) + 12
    /\ ~decoded.ok
    /\ decoded.loc.bpp = 8

\* ---- the colour conversions, driven through the codec ----

\* a 16-bit colour paired with c: any two colours are some c and its partner
Partner(c) == (c * 7 + 12345) % 65536

\* a 16bpp 3x1 file without CLUT: c, c with bit 15 flipped, and c's partner
ColourFile(c) ==
    PackU32(16) \o PackU32(2)
    \o PackU32(18) \o PackU16(0) \o PackU16(0) \o PackU16(3) \o PackU16(1)
    \o PackU16(c) \o PackU16((c + 32768) % 65536) \o PackU16(Partner(c))

\* the palette values the colours are drawn from: one channel runs over
\* 0..255 while the other two take sample values
ChannelSamples == {0, 100, 255}

Colours ==
    { << v, a, b >> : v \in 0..255, a \in ChannelSamples, b \in ChannelSamples }
    \cup { << a, v, b >> : v \in 0..255, a \in ChannelSamples, b \in ChannelSamples }
    \cup { << a, b, v >> : v \in 0..255, a \in ChannelSamples, b \in ChannelSamples }

\* a 4x1 'P' image of index 0 with a palette of the one colour rgb
OneColourImage(rgb) ==
    [size |-> << 4, 1 >>, palette |-> rgb, pixels |-> << 0, 0, 0, 0 >>]

\* read_tim on a file of 16-bit colours
DecodeColour ==
    /\ pc = "idle"
    /\ \E c \in 0..65535 :
          /\ file' = ColourFile(c)
          /\ decoded' = read_tim(ColourFile(c), 0)
    /\ palette_index' = 0
    /\ pc' = "decoded"
    /\ UNCHANGED << image, bpp_arg, encoded >>
    /\ UNCHANGED viewer

\* image_to_tim on an image whose palette is the colour just decoded
Requantize ==
    /\ pc = "decoded"
    /\ decoded.ok
    /\ image' = OneColourImage(decoded.px[1])
    /\ bpp_arg' = 4
    /\ encoded' = image_to_tim(OneColourImage(decoded.px[1]), 4)
    /\ pc' = "requantized"
    /\ UNCHANGED << file, palette_index, decoded >>
    /\ UNCHANGED viewer

\* image_to_tim on an image whose palette is one 8-bit colour
EncodeColour ==
    /\ pc = "idle"
    /\ \E rgb \in Colours :
          /\ image' = OneColourImage(rgb)
          /\ encoded' = image_to_tim(OneColourImage(rgb), 4)
    /\ bpp_arg' = 4
    /\ pc' = "encoded"
    /\ UNCHANGED << file, palette_index, decoded >>
    /\ UNCHANGED viewer

NextColour == DecodeColour \/ Requantize \/ EncodeColour \/ ReadBack \/ Return

SpecColour == Init /\ [][NextColour]_vars

\* the colour c of the file decoded
ColourRead == FileU16(file, 20)

\* the colour just decoded has been written as a CLUT entry
Requantized ==
    /\ pc = "requantized"
    /\ encoded.ok
    /\ image.palette = decoded.px[1]

\* C15 as stated: quantize(expand(c)) = c for every 16-bit colour c
C15_AsStated ==
    Requantized => ClutColour(encoded.bytes, 1) = ColourRead

\* C15: quantize(expand(c)) is c with bit 15 cleared, for every 16-bit
\* colour c; it equals c for every c whose bit 15 is clear.
C15_QuantizeExpand ==
    Requantized
        => /\ ClutColour(encoded.bytes, 1) = ColourRead % 32768
           /\ ColourRead < 32768 => ClutColour(encoded.bytes, 1) = ColourRead

\* the colour 0x7FFF, all three fields full, comes back as itself
C15_Witness ==
    /\ Requantized
    /\ ColourRead = 32767
    /\ decoded.px[1] = << 248, 248, 248 >>
    /\ ClutColour(encoded.bytes, 1) = 32767

\* C16: every channel of expand(quantize(r, g, b)) is at most the original
\* channel and at most 7 below it.
C16_TruncationBound ==
    (pc = "readback" /\ Len(image.palette) = 3)
        => /\ decoded.ok
           /\ \A k \in 1..Len(decoded.px), ch \in 1..3 :
                 /\ decoded.px[k][ch] <= image.palette[ch]
                 /\ image.palette[ch] - decoded.px[k][ch] <= 7

\* the colour (255, 100, 0) comes back as (248, 96, 0)
C16_Witness ==
    /\ pc = "readback"
    /\ image.palette = << 255, 100, 0 >>
    /\ decoded.ok
    /\ decoded.px[1] = << 248, 96, 0 >>

\* the 5-bit field of channel ch (1 = R, bits 0-4; 2 = G, bits 5-9; 3 = B,
\* bits 10-14) of c
Field(c, ch) ==
    IF ch = 1 THEN c % 32
    ELSE IF ch = 2 THEN (c \div 32) % 32
    ELSE (c \div 1024) % 32

\* C17: each channel expand gives is 8 times the 5-bit field of c, within
\* 0..248 with its low 3 bits zero; flipping bit 15 changes nothing; and a
\* smaller field never gives a larger channel.
C17_ExpandIsShift ==
    (pc = "decoded" /\ Len(file) = 26 /\ file = ColourFile(ColourRead))
        => /\ decoded.ok
           /\ Len(decoded.px) = 3
           /\ \A ch \in 1..3 :
                 /\ decoded.px[1][ch] = 8 * Field(ColourRead, ch)
                 /\ decoded.px[1][ch] \in 0..248
                 /\ decoded.px[1][ch] % 8 = 0
                 /\ decoded.px[2][ch] = decoded.px[1][ch]
                 /\ Field(ColourRead, ch) < Field(Partner(ColourRead), ch)
                       => decoded.px[1][ch] <= decoded.px[3][ch]
                 /\ Field(Partner(ColourRead), ch) < Field(ColourRead, ch)
                       => decoded.px[3][ch] <= decoded.px[1][ch]

\* the colour 0xFFFF: bit 15 set, every field 31, every channel 248
C17_Witness ==
    /\ pc = "decoded"
    /\ file = ColourFile(65535)
    /\ decoded.ok
    /\ decoded.px[1] = << 248, 248, 248 >>
    /\ decoded.px[2] = << 248, 248, 248 >>

\* ---- the fatal conditions ----

\* the fatal condition a file is in, the earlier one when it is in two
Condition(f) ==
    IF Len(f) < 4 THEN "truncated"
    ELSE IF FileU32(f, 0) # 16 THEN "bad magic"
    ELSE IF Len(f) < 8 THEN "truncated"
    ELSE IF FileU32(f, 4) % 8 \notin 0..3 THEN "unsupported mode"
    ELSE IF Truncated(f) THEN "truncated"
    ELSE "none"

\* the kinds read_tim gives a file with a bad magic and a file with an
\* unsupported mode
BadMagicKind == read_tim(PackU32(17) \o PackU32(0), 0).exc

UnsupportedModeKind == read_tim(PackU32(16) \o PackU32(4), 0).exc

MaxFiles == 3          \* most entries of the file list

\* a path: os.path.splitext gives (folder + base, ext)
Path(base, ext) == [base |-> base, ext |-> ext]

\* a TIM with a 16x1 CLUT whose first two colours are 5 and 2, and a 4x1
\* 4bpp image of indices 0, 1, 2, 3
ClutTimBytes ==
    PackU32(16) \o PackU32(8)
    \o PackU32(44) \o PackU16(0) \o PackU16(0) \o PackU16(16) \o PackU16(1)
    \o ToBytesU16([k \in 1..16 |-> IF k = 1 THEN 5 ELSE IF k = 2 THEN 2 ELSE ColourAt(k)])
    \o PackU32(14) \o PackU16(0) \o PackU16(0) \o PackU16(1) \o PackU16(1)
    \o << 16, 50 >>

\* a TIM cut inside its CLUT header
CutTimBytes == PackU32(16) \o PackU32(8) \o << 44, 0 >>

\* what open(path, 'rb') reads
file_bytes(path) ==
    CASE path.base = "clut" -> ClutTimBytes
      [] path.base = "cut" -> CutTimBytes
      [] path.base = "bad" -> PackU32(17) \o PackU32(0)
      [] path.base = "tiny" -> << 16, 0 >>
      [] OTHER -> << 137, 80, 78, 71 >>

\* os.path.isfile(path)
isfile(path) == path.base # "dir"

\* the paths a dialog, a folder listing or a drop can hand to _add_paths
Candidates ==
    { Path("clut", ".tim"), Path("cut", ".tim"), Path("bad", ".tim"),
      Path("tiny", ".tim"), Path("dir", ".tim"), Path("pic", ".png"),
      Path("broken", ".png"), Path("notes", ".txt") }

\* the candidates _add_paths appends to the lists
Loadable ==
    { Path("clut", ".tim"), Path("cut", ".tim"), Path("pic", ".png"),
      Path("broken", ".png") }

\* the arguments of _add_paths: one path, or any path followed by a
\* loadable one
PathLists ==
    { << a >> : a \in Candidates } \cup { << a, b >> : a \in Candidates, b \in Loadable }

\* Image.open(path).convert('P', palette=Image.ADAPTIVE, colors=16): the
\* indexed image, or the exception of a file PIL cannot read
open_indexed(path) ==
    IF path.base = "pic"
    THEN [ok |-> TRUE,
          image |-> [size |-> << 4, 1 >>, palette |-> PaletteList(2),
                     pixels |-> << 0, 1, 1, 0 >>]]
    ELSE [ok |-> FALSE, image |-> NoImage]

\* Image.open(path).convert("RGBA") as display_image uses it
open_rgba(path) ==
    IF path.base = "pic"
    THEN [ok |-> TRUE, exc |-> "", msg |-> "", size |-> << 4, 1 >>,
          px |-> [k \in 1..4 |-> IF k \in {1, 4} THEN PalColour(0) ELSE PalColour(1)]]
    ELSE [ok |-> FALSE, exc |-> "UnidentifiedImageError", msg |-> "cannot identify image file",
          size |-> << 0, 0 >>, px |-> <<>>]

\* ext[1:]
file_type_of(ext) ==
    CASE ext = ".png" -> "png"
      [] ext = ".bmp" -> "bmp"
      [] ext = ".jpg" -> "jpg"
      [] ext = ".jpeg" -> "jpeg"
      [] OTHER -> "tim"

\* {0:4,1:8,2:16,3:24}.get(bpp_mode, 24)
inspect_bpp(bpp_mode) ==
    CASE bpp_mode = 0 -> 4
      [] bpp_mode = 1 -> 8
      [] bpp_mode = 2 -> 16
      [] OTHER -> 24

\* the header inspection of _add_paths: seek(4), the flags, and for a CLUT
\* seek(12), 4 bytes, then four u16 of which the last is taken as the row
\* count; an exception gives 1 palette and 24 bpp
inspect_header(ftype, bytes) ==
    IF ftype # "tim" THEN [failed |-> FALSE, bpp |-> 24, palettes_count |-> 1]
    ELSE IF Len(bytes) < 8 THEN [failed |-> TRUE, bpp |-> 24, palettes_count |-> 1]
    ELSE IF (FileU32(bytes, 4) \div 8) % 2 = 0
    THEN [failed |-> FALSE, bpp |-> inspect_bpp(FileU32(bytes, 4) % 8), palettes_count |-> 1]
    ELSE IF Len(bytes) < 24 THEN [failed |-> TRUE, bpp |-> 24, palettes_count |-> 1]
    ELSE [failed |-> FALSE, bpp |-> inspect_bpp(FileU32(bytes, 4) % 8),
          palettes_count |-> IF FileU16(bytes, 22) > 0 THEN FileU16(bytes, 22) ELSE 1]

\* the five lists
Lists(tf, ft, pal, pidx, bpp) ==
    [tim_files |-> tf, file_types |-> ft, palettes |-> pal,
     palette_indices |-> pidx, bpp_modes |-> bpp]

\* mutant of append_inspected: a failed inspection skips the three appends
append_inspected_skip(L, info) ==
    IF info.failed THEN L
    ELSE Lists(L.tim_files, L.file_types,
               Append(L.palettes, info.palettes_count),
               Append(L.palette_indices, 0),
               Append(L.bpp_modes, info.bpp))

\* palettes.append, palette_indices.append, bpp_modes.append
append_inspected(L, info) ==
    Lists(L.tim_files, L.file_types,
          Append(L.palettes, info.palettes_count),
          Append(L.palette_indices, 0),
          Append(L.bpp_modes, info.bpp))

\* tim_files.append, file_types.append, then the inspection and its appends
append_entry(L, path, ftype) ==
    append_inspected(
        Lists(Append(L.tim_files, path), Append(L.file_types, ftype),
              L.palettes, L.palette_indices, L.bpp_modes),
        inspect_header(ftype, file_bytes(path)))

\* one iteration of the loop of _add_paths
add_path(L, path) ==
    IF ~isfile(path) THEN L
    ELSE IF path.ext = ".tim"
    THEN IF Len(file_bytes(path)) < 4 THEN L
         ELSE IF FileU32(file_bytes(path), 0) # 16 THEN L
         ELSE append_entry(L, path, "tim")
    ELSE IF path.ext \in {".png", ".bmp", ".jpg", ".jpeg"}
    THEN append_entry(L, path, file_type_of(path.ext))
    ELSE L

\* the loop of _add_paths over paths[1..n]
RECURSIVE add_paths(_, _, _)
add_paths(L, paths, n) ==
    IF n = 0 THEN L ELSE add_path(add_paths(L, paths, n - 1), paths[n])

\* list.pop(idx)
pop(list, idx) == SubSeq(list, 1, idx) \o SubSeq(list, idx + 2, Len(list))

\* mutant of index_after_remove: the index stays where the entry was
index_after_remove_same(idx) == idx

\* self.index = max(0, idx-1)
index_after_remove(idx) == IF idx - 1 > 0 THEN idx - 1 ELSE 0

\* display_image: what the preview and the status label show
display_image(tf, ft, pidx, idx) ==
    IF tf = <<>>
    THEN [status |-> "No files loaded", path |-> "", palette_index |-> 0,
          image |-> ImageOf(NoResult)]
    ELSE IF idx >= Len(tf) \/ idx < -Len(tf) \/ idx >= Len(ft) \/ idx < -Len(ft)
            \/ idx >= Len(pidx) \/ idx < -Len(pidx)
    THEN [status |-> "IndexError", path |-> "", palette_index |-> 0,
          image |-> ImageOf(NoResult)]
    ELSE
    Let(IF idx >= 0 THEN idx + 1 ELSE Len(tf) + idx + 1, LAMBDA k :
    Let(IF ft[k] = "tim" THEN ImageOf(read_tim(file_bytes(tf[k]), pidx[k]))
        ELSE open_rgba(tf[k]), LAMBDA img :
        [status |-> IF img.ok THEN "loaded" ELSE "Failed to load",
         path |-> tf[k].base,
         palette_index |-> IF ft[k] = "tim" THEN pidx[k] ELSE 0,
         image |-> img]))

\* winfo_width() or 400 of the palette preview canvas
CanvasWidth == 400

\* event.x of the clicks on the palette preview
ClickXs == {0, 200, 399}

\* _on_palette_click on the bytes of the current file: the index it stores,
\* or no hit when it returns early or swallows an exception. After seek(12)
\* the four u16 it unpacks start at offset 16: cw is the u16 at offset 20.
palette_click(bytes, x) ==
    IF Len(bytes) < 8 THEN [hit |-> FALSE, new_index |-> 0]
    ELSE IF (FileU32(bytes, 4) \div 8) % 2 = 0 THEN [hit |-> FALSE, new_index |-> 0]
    ELSE IF Len(bytes) < 24 THEN [hit |-> FALSE, new_index |-> 0]
    ELSE IF FileU16(bytes, 20) <= 0 THEN [hit |-> FALSE, new_index |-> 0]
    ELSE [hit |-> TRUE,
          new_index |-> Min((x * FileU16(bytes, 20)) \div CanvasWidth,
                            FileU16(bytes, 20) - 1)]

\* the lists as they are
CurrentLists == Lists(tim_files, file_types, palettes, palette_indices, bpp_modes)

\* _add_paths(paths), from the file dialog, the folder dialog or a drop
AddPaths ==
    /\ ~batch.running
    /\ \E paths \in PathLists :
          LET L == add_paths(CurrentLists, paths, Len(paths))
          IN  /\ Len(L.tim_files) <= MaxFiles
              /\ tim_files' = L.tim_files
              /\ file_types' = L.file_types
              /\ palettes' = L.palettes
              /\ palette_indices' = L.palette_indices
              /\ bpp_modes' = L.bpp_modes
              /\ IF Len(L.tim_files) > Len(tim_files)
                 THEN /\ index' = 0
                      /\ selection' = 0
                      /\ shown' = display_image(L.tim_files, L.file_types,
                                                L.palette_indices, 0)
                 ELSE UNCHANGED << index, selection, shown >>
    /\ UNCHANGED << batch, folder >>
    /\ UNCHANGED codec

\* _on_list_select with a selection, and _on_thumb_click(idx)
Select ==
    /\ ~batch.running
    /\ \E idx \in 0..(Len(tim_files) - 1) :
          /\ index' = idx
          /\ selection' = idx
          /\ shown' = display_image(tim_files, file_types, palette_indices, idx)
    /\ UNCHANGED << tim_files, file_types, palettes, palette_indices, bpp_modes,
                    batch, folder >>
    /\ UNCHANGED codec

\* _on_list_right_click and _on_thumb_right_click: the entry under the
\* pointer is selected and becomes current; nearest() of an empty list is -1
RightClick ==
    /\ ~batch.running
    /\ IF tim_files = <<>>
       THEN index' = -1 /\ selection' = NoSelection
       ELSE \E idx \in 0..(Len(tim_files) - 1) :
               index' = idx /\ selection' = idx
    /\ UNCHANGED << tim_files, file_types, palettes, palette_indices, bpp_modes,
                    shown, batch, folder >>
    /\ UNCHANGED codec

\* _context_remove
ContextRemove ==
    /\ ~batch.running
    /\ selection # NoSelection
    /\ tim_files' = pop(tim_files, selection)
    /\ file_types' = pop(file_types, selection)
    /\ palettes' = pop(palettes, selection)
    /\ palette_indices' = pop(palette_indices, selection)
    /\ bpp_modes' = pop(bpp_modes, selection)
    /\ selection' = NoSelection
    /\ index' = index_after_remove(selection)
    /\ shown' = display_image(pop(tim_files, selection), pop(file_types, selection),
                              pop(palette_indices, selection),
                              index_after_remove(selection))
    /\ UNCHANGED << batch, folder >>
    /\ UNCHANGED codec

\* prev_image
PrevImage ==
    /\ ~batch.running
    /\ tim_files # <<>>
    /\ index' = (index - 1) % Len(tim_files)
    /\ selection' = (index - 1) % Len(tim_files)
    /\ shown' = display_image(tim_files, file_types, palette_indices,
                              (index - 1) % Len(tim_files))
    /\ UNCHANGED << tim_files, file_types, palettes, palette_indices, bpp_modes,
                    batch, folder >>
    /\ UNCHANGED codec

\* next_image
NextImage ==
    /\ ~batch.running
    /\ tim_files # <<>>
    /\ index' = (index + 1) % Len(tim_files)
    /\ selection' = (index + 1) % Len(tim_files)
    /\ shown' = display_image(tim_files, file_types, palette_indices,
                              (index + 1) % Len(tim_files))
    /\ UNCHANGED << tim_files, file_types, palettes, palette_indices, bpp_modes,
                    batch, folder >>
    /\ UNCHANGED codec

\* mutant of store_palette_index: display_image writes back the row read_tim
\* clamped to
store_palette_index_clamped(pidx, k, new_index, bytes) ==
    [pidx EXCEPT ![k] = IF read_tim(bytes, new_index).loc.has_clut
                           /\ new_index >= Len(read_tim(bytes, new_index).loc.clut)
                        THEN 0 ELSE new_index]

\* self.palette_indices[idx] = new_index, then display_image(): read_tim
\* rebinds its own palette_index and leaves the list alone
store_palette_index(pidx, k, new_index, bytes) == [pidx EXCEPT ![k] = new_index]

\* _on_palette_click
PaletteClick ==
    /\ ~batch.running
    /\ tim_files # <<>>
    /\ index >= 0 /\ index < Len(tim_files)
    /\ file_types[index + 1] = "tim"
    /\ \E x \in ClickXs :
          LET click == palette_click(file_bytes(tim_files[index + 1]), x)
          IN  /\ click.hit
              /\ palette_indices' = store_palette_index(palette_indices, index + 1,
                                        click.new_index, file_bytes(tim_files[index + 1]))
              /\ shown' = display_image(tim_files, file_types,
                              [palette_indices EXCEPT ![index + 1] = click.new_index],
                              index)
    /\ UNCHANGED << tim_files, file_types, palettes, bpp_modes, index, selection,
                    batch, folder >>
    /\ UNCHANGED codec

\* ---- batch conversion ----

\* how a save ends: done, open() raised, or the write raised part-way
SaveOutcomes == {"saved", "open error", "write error"}

\* a file of the output folder
OutFile(base, ext, complete, bytes, size, px) ==
    [base |-> base, ext |-> ext, complete |-> complete, bytes |-> bytes,
     size |-> size, px |-> px]

\* the folder after a save of (bytes, size, px) to base + ext ends as outcome
save(fold, base, ext, outcome, bytes, size, px) ==
    IF outcome = "open error" THEN fold
    ELSE { e \in fold : e.base # base \/ e.ext # ext }
         \cup { IF outcome = "saved"
                THEN OutFile(base, ext, TRUE, bytes, size, px)
                ELSE OutFile(base, ext, FALSE, <<>>, << 0, 0 >>, <<>>) }

\* the outcome of one loop iteration: what to add to count, the log entry
\* and the folder
Iteration(add, entry, fold) == [add |-> add, entry |-> entry, fold |-> fold]

\* the ft == 'tim' branch: read_tim, then img.save for each chosen format
convert_tim(path, pidx, opts, o1, o2, fold) ==
    Let(ImageOf(read_tim(file_bytes(path), pidx)), LAMBDA img :
        IF ~img.ok THEN Iteration(0, "decode error", fold)
        ELSE IF opts.to_png /\ o1 # "saved"
        THEN Iteration(0, "save error", save(fold, path.base, ".png", o1, <<>>, img.size, img.px))
        ELSE
        Let(IF opts.to_png
            THEN save(fold, path.base, ".png", o1, <<>>, img.size, img.px)
            ELSE fold, LAMBDA fold1 :
        Let(IF opts.to_png THEN 1 ELSE 0, LAMBDA n1 :
            IF ~opts.to_bmp THEN Iteration(n1, IF n1 = 0 THEN "nothing to do" ELSE "converted", fold1)
            ELSE IF o2 # "saved"
            THEN Iteration(n1, "save error",
                           save(fold1, path.base, ".bmp", o2, <<>>, img.size, img.px))
            ELSE Iteration(n1 + 1, "converted",
                           save(fold1, path.base, ".bmp", o2, <<>>, img.size, img.px)))))

\* mutant of write_tim: the output file is opened before the conversion
write_tim_open_first(path, o1, fold) ==
    Let(open_indexed(path), LAMBDA conv :
        IF ~conv.ok
        THEN Iteration(0, "convert error", save(fold, path.base, ".tim", "write error", <<>>, << 0, 0 >>, <<>>))
        ELSE
        Let(image_to_tim(conv.image, 4), LAMBDA enc :
            IF ~enc.ok
            THEN Iteration(0, "convert error", save(fold, path.base, ".tim", "write error", <<>>, << 0, 0 >>, <<>>))
            ELSE IF o1 # "saved"
            THEN Iteration(0, "save error", save(fold, path.base, ".tim", o1, enc.bytes, << 0, 0 >>, <<>>))
            ELSE Iteration(1, "converted", save(fold, path.base, ".tim", o1, enc.bytes, << 0, 0 >>, <<>>))))

\* the convert_to_tim branch: Image.open(...).convert, image_to_tim(img,
\* bpp=4), and only then open(..., "wb") and write
write_tim(path, o1, fold) ==
    Let(open_indexed(path), LAMBDA conv :
        IF ~conv.ok THEN Iteration(0, "convert error", fold)
        ELSE
        Let(image_to_tim(conv.image, 4), LAMBDA enc :
            IF ~enc.ok THEN Iteration(0, "convert error", fold)
            ELSE IF o1 # "saved"
            THEN Iteration(0, "save error", save(fold, path.base, ".tim", o1, enc.bytes, << 0, 0 >>, <<>>))
            ELSE Iteration(1, "converted", save(fold, path.base, ".tim", o1, enc.bytes, << 0, 0 >>, <<>>))))

\* the body of the loop for entry (path, ft, pidx)
batch_file(path, ft, pidx, opts, o1, o2, fold) ==
    IF ft = "tim" THEN convert_tim(path, pidx, opts, o1, o2, fold)
    ELSE IF opts.to_tim THEN write_tim(path, o1, fold)
    ELSE Iteration(0, "nothing to do", fold)

\* what the chosen output folder may hold already: nothing, or the outputs
\* of an earlier run
OldFolder ==
    { OutFile("broken", ".tim", TRUE, << 16, 0, 0, 0 >>, << 0, 0 >>, <<>>),
      OutFile("clut", ".png", TRUE, <<>>, << 1, 1 >>, << << 0, 0, 0 >> >>) }

InitialFolders == { {}, OldFolder }

\* batch_convert up to the loop: files are loaded, a folder is chosen and
\* the options dialog is confirmed
BatchStart ==
    /\ ~batch.running
    /\ tim_files # <<>>
    /\ \E png \in BOOLEAN, bmp \in BOOLEAN, tim \in BOOLEAN :
          batch' = [running |-> TRUE, reported |-> -1, i |-> 0, count |-> 0, log |-> <<>>,
                    to_png |-> png, to_bmp |-> bmp, to_tim |-> tim]
    /\ folder' \in InitialFolders
    /\ UNCHANGED << tim_files, file_types, palettes, palette_indices, bpp_modes,
                    index, selection, shown >>
    /\ UNCHANGED codec

\* the for loop goes on to the next entry, whatever the iteration did
next_after(i, entry, n) == i + 1

\* one iteration of the loop of batch_convert
BatchFile ==
    /\ batch.running
    /\ batch.reported = -1
    /\ batch.i < Len(tim_files)
    /\ \E o1 \in SaveOutcomes, o2 \in SaveOutcomes :
          LET it == batch_file(tim_files[batch.i + 1], file_types[batch.i + 1],
                               palette_indices[batch.i + 1], batch, o1, o2, folder)
          IN  /\ batch' = [batch EXCEPT !.i = next_after(batch.i, it.entry, Len(tim_files)),
                                        !.count = batch.count + it.add,
                                        !.log = Append(batch.log,
                                                  [path |-> tim_files[batch.i + 1],
                                                   entry |-> it.entry, saved |-> it.add])]
              /\ folder' = it.fold
    /\ UNCHANGED << tim_files, file_types, palettes, palette_indices, bpp_modes,
                    index, selection, shown >>
    /\ UNCHANGED codec

\* the message box after the loop: "Done - {count} files saved"
BatchDone ==
    /\ batch.running
    /\ batch.reported = -1
    /\ batch.i >= Len(tim_files)
    /\ batch' = [batch EXCEPT !.reported = batch.count]
    /\ UNCHANGED << tim_files, file_types, palettes, palette_indices, bpp_modes,
                    index, selection, shown, folder >>
    /\ UNCHANGED codec

\* the message box is dismissed and batch_convert returns
BatchClose ==
    /\ batch.running
    /\ batch.reported # -1
    /\ batch' = NoBatch
    /\ folder' = {}
    /\ UNCHANGED << tim_files, file_types, palettes, palette_indices, bpp_modes,
                    index, selection, shown >>
    /\ UNCHANGED codec

NextViewer ==
    \/ AddPaths
    \/ Select
    \/ RightClick
    \/ ContextRemove
    \/ PrevImage
    \/ NextImage
    \/ PaletteClick

SpecViewer == Init /\ [][NextViewer]_vars

NextBatch == AddPaths \/ BatchStart \/ BatchFile \/ BatchDone \/ BatchClose

SpecBatch == Init /\ [][NextBatch]_vars

\* ---- the viewer's lists and index ----

\* C23: the palette index stored for each file is a row of that file's
\* CLUT: 0 <= palette_indices[i] < palettes[i].
C23_PaletteIndexValid ==
    \A k \in 1..Len(palette_indices) :
        /\ k <= Len(palettes)
        /\ 0 <= palette_indices[k]
        /\ palette_indices[k] < palettes[k]

\* what the lists are to hold for a path: its type, and the depth and row
\* count its header inspection ends with
Described(path) ==
    CASE path.base = "clut" -> [type |-> "tim", bpp |-> 4, palettes |-> 2]
      [] path.base = "cut" -> [type |-> "tim", bpp |-> 24, palettes |-> 1]
      [] OTHER -> [type |-> "png", bpp |-> 24, palettes |-> 1]

\* C24: tim_files, file_types, palettes, palette_indices and bpp_modes have
\* one length, and entry i of each describes file i, also for a file whose
\* header inspection failed.
C24_ListsAligned ==
    /\ Len(file_types) = Len(tim_files)
    /\ Len(palettes) = Len(tim_files)
    /\ Len(palette_indices) = Len(tim_files)
    /\ Len(bpp_modes) = Len(tim_files)
    /\ \A k \in 1..Len(tim_files) :
          /\ file_types[k] = Described(tim_files[k]).type
          /\ palettes[k] = Described(tim_files[k]).palettes
          /\ bpp_modes[k] = Described(tim_files[k]).bpp
          /\ palette_indices[k] \in Nat

\* cut.tim, whose inspection raised, sits before clut.tim after a removal
C24_Witness ==
    /\ Len(tim_files) = 2
    /\ tim_files[1].base = "cut"
    /\ tim_files[2].base = "clut"
    /\ bpp_modes = << 24, 4 >>
    /\ selection = NoSelection

\* C25: with a non-empty list the current index is within it whenever
\* display_image reads the current file, and display_image never indexes an
\* empty list: it shows "No files loaded".
C25_IndexInRange ==
    /\ tim_files # <<>> => (0 <= index /\ index < Len(tim_files))
    /\ shown.status # "IndexError"
    /\ tim_files = <<>> => shown.status \in {"", "No files loaded"}
    /\ (tim_files # <<>> /\ shown.status # "No files loaded")
          => \E k \in 1..Len(tim_files) : shown.path = tim_files[k].base

\* the last remaining file has been removed
C25_Witness ==
    /\ tim_files = <<>>
    /\ selection = NoSelection
    /\ index = 0
    /\ shown.status = "No files loaded"

\* a step that ends in display_image()
DisplayStep ==
    \/ Select
    \/ PrevImage
    \/ NextImage
    \/ PaletteClick
    \/ ContextRemove
    \/ (AddPaths /\ Len(tim_files') > Len(tim_files))

\* the rows of the CLUT of a file, as read_tim lays it out
RowsOf(bytes) == Len(read_tim(bytes, 0).loc.clut)

LastEntry == batch'.log[Len(batch'.log)]

\* bytes is a whole TIM buffer as image_to_tim returns it for 4bpp: header,
\* 16-colour CLUT block and an image block as long as its size field says
WholeTim(bytes) ==
    /\ Len(bytes) >= 64
    /\ FileU32(bytes, 0) = 16
    /\ FileU32(bytes, 4) = 8
    /\ FileU32(bytes, 8) = 44
    /\ Len(bytes) = 52 + FileU32(bytes, 52)

\* C21: the output file is opened only after the conversion has returned
\* the whole buffer: an iteration whose conversion raised leaves the output
\* folder as it was (nothing created, truncated or partly written), and a
\* .tim file is touched only by an iteration that had its buffer, a
\* completed save holding all of it.
C21_WriteAfterEncode ==
    [][ BatchFile
            => /\ LastEntry.entry = "convert error" => folder' = folder
               /\ \A e \in folder' \ folder :
                     e.ext = ".tim"
                        => /\ LastEntry.entry \in {"converted", "save error"}
                           /\ e.base = LastEntry.path.base
                           /\ e.complete => WholeTim(e.bytes)
      ]_vars

\* the conversion of broken.png raised and the broken.tim of an earlier run
\* is still whole
C21_Witness ==
    /\ batch.running
    /\ batch.to_tim
    /\ \E k \in 1..Len(batch.log) :
          /\ batch.log[k].entry = "convert error"
          /\ batch.log[k].path.base = "broken"
    /\ OutFile("broken", ".tim", TRUE, << 16, 0, 0, 0 >>, << 0, 0 >>, <<>>) \in folder

\* the files of the folder whose save completed in this run
SavedFiles == { e \in folder : e.complete /\ e \notin OldFolder }

\* the loop has visited the first batch.i entries of the list, each once
\* and in order
VisitedInOrder ==
    /\ Len(batch.log) = batch.i
    /\ batch.i <= Len(tim_files)
    /\ \A k \in 1..Len(batch.log) : batch.log[k].path = tim_files[k]

\* the saves that completed in the iterations logged so far
RECURSIVE CompletedSaves(_)
CompletedSaves(n) == IF n = 0 THEN 0 ELSE CompletedSaves(n - 1) + batch.log[n].saved

\* C26: batch conversion visits every loaded file once in list order, an
\* exception in one iteration does not stop the later ones, and the count
\* reported equals the number of output files whose save completed.
C26_CountIsFilesSaved ==
    /\ batch.running => VisitedInOrder
    /\ (batch.running /\ batch.reported # -1)
          => /\ batch.i = Len(tim_files)
             /\ batch.reported = Cardinality(SavedFiles)

\* what holds of C26: every file is visited once in order whatever raised,
\* the count reported is the number of saves that completed, and it is the
\* number of files saved when no two entries share an output name
C26_CountIsSaves ==
    /\ batch.running => VisitedInOrder /\ batch.count = CompletedSaves(Len(batch.log))
    /\ (batch.running /\ batch.reported # -1)
          => /\ batch.i = Len(tim_files)
             /\ batch.reported = batch.count
             /\ (\A j, k \in 1..Len(tim_files) : j # k => tim_files[j].base # tim_files[k].base)
                   => batch.reported = Cardinality(SavedFiles)

====
